---- MODULE Spec2Model ----
(***************************************************************************)
(* State-machine model of CompressorInstance                               *)
(* (src/src/effects/CompressorInstance.cpp): the offline processor core,   *)
(* the realtime "slave" contexts, their sample counters and telemetry      *)
(* sinks, and the lifecycle / processing handlers that act on them.        *)
(***************************************************************************)
EXTENDS Integers, Sequences, FiniteSets, TLC

\* ---------------------------------------------------------------- bounds
MaxSlaves == 2
MaxSamples == 768
MaxPackets == 2
MaxResumes == 1
MaxCalls == 4
MaxSettingsCalls == 3
MaxBlockLen == 2
MaxStreamCalls == 5

\* ------------------------------------------------------ program constants
RealtimeBlockSize == 512
AudioInCount == 2
NullOutputs == 0
UnsetBlockSize == 0

\* ------------------------------------------------------------ input sets
BlockLens == {0, 256, 512}
SampleRates == {44100, 48000}
ChannelCounts == {2}
AddSampleRates == {44100}
Sinks == {1, 2}
Groups == 0..MaxSlaves

\* std::optional<T>: the empty set is nullopt, {v} holds v
Nullopt == {}
MakeOptional(v) == {v}

\* lookaheadMs is a double: it is held as a count of 1/LookaheadDen ms, a
\* binary fraction, so that the arithmetic of GetLatency on it is exact
LookaheadDen == 64

\* DynamicRangeProcessorSettings values (the base part shared by both variants)
DrpSoft == [inCompressionThreshDb |-> -10, outCompressionThreshDb |-> -4, lookaheadMs |-> 64]
DrpHard == [inCompressionThreshDb |-> -20, outCompressionThreshDb |-> -20, lookaheadMs |-> 128]
DrpDefault == [inCompressionThreshDb |-> 0, outCompressionThreshDb |-> 0, lookaheadMs |-> 0]

\* EffectSettings snapshots: a type-erased holder of one settings variant
EffectSettingsSet ==
    { [variant |-> "CompressorSettings", drp |-> DrpSoft],
      [variant |-> "LimiterSettings", drp |-> DrpHard],
      [variant |-> "Other", drp |-> DrpDefault] }

\* settings.cast<T>() yields a null pointer unless the holder contains a T
CastSucceeds(settings, variant) == settings.variant = variant

\* GetDynamicRangeProcessorSettings that survives a holder of another type
SettingsCrashNever(settings) == FALSE

\* GetDynamicRangeProcessorSettings dereferences the LimiterSettings cast
\* unchecked: with neither variant held it reads through a null pointer,
\* which terminates the process.
SettingsCrash(settings) ==
    /\ ~CastSucceeds(settings, "CompressorSettings")
    /\ ~CastSucceeds(settings, "LimiterSettings")

\* The returned value is sliced to the DynamicRangeProcessorSettings base.
GetDynamicRangeProcessorSettings(settings) ==
    IF CastSucceeds(settings, "CompressorSettings")
    THEN settings.drp
    ELSE settings.drp

\* Per-block statistics the core records in Process; the block's content and
\* the DSP are abstracted to the statistics they produce.
FrameStatsSet ==
    { [maxInputSampleDb |-> -30, dbAttenuationOfMaxInputSample |-> 0],
      [maxInputSampleDb |-> -2, dbAttenuationOfMaxInputSample |-> -6] }

\* double -> float conversion of a non-negative integral value: exact below
\* 2^24, otherwise rounded to the 24-bit significand (ties to even).
FloatStep(x) == IF x < 16777216 THEN 1 ELSE IF x < 33554432 THEN 2 ELSE 4
ToFloat(x) ==
    LET s == FloatStep(x)
        lo == (x \div s) * s
        r == x - lo
    IN  IF 2 * r < s THEN lo
        ELSE IF 2 * r > s THEN lo + s
        ELSE IF (lo \div s) % 2 = 0 THEN lo ELSE lo + s

\* ------------------------------------------------- CompressorProcessor core
NewCompressorProcessor ==
    [mSettings |-> DrpDefault, mSampleRate |-> 0, mNumChannels |-> 0,
     mBlockSize |-> 0]

ApplySettingsIfNeeded(core, drp) ==
    IF core.mSettings = drp THEN core ELSE [core EXCEPT !.mSettings = drp]

CoreInit(core, sampleRate, numChannels, blockSize) ==
    [core EXCEPT !.mSampleRate = sampleRate, !.mNumChannels = numChannels,
                 !.mBlockSize = blockSize]

\* Reinit re-primes envelope and delay-line contents, which are not modelled;
\* the structural parameters and the applied settings stay.
CoreReinit(core) == core

\* Process runs one block; of its effects only the block's statistics are
\* read by the instance, in the same handler (GetLastFrameStats).
CoreProcess(core, stats) == core

GetLastFrameStats(core, stats) == stats

GetSettings(core) == core.mSettings

\* Gain curve: input level in dB -> target output level in dB
EvaluateTransferFunction(core, inputDb) ==
    IF inputDb > core.mSettings.inCompressionThreshDb
    THEN core.mSettings.outCompressionThreshDb
    ELSE inputDb + (core.mSettings.outCompressionThreshDb
                    - core.mSettings.inCompressionThreshDb)

\* ------------------------------------------------------------------ state
VARIABLES
    mCompressor,      \* the instance's own (offline) core
    mpOutputs,        \* the instance's own telemetry sink pointer
    mSampleCounter,   \* the instance's own sample counter
    mSampleRate,      \* std::optional<double>
    mBlockSize,       \* block size set by SetBlockSize
    mSlaves,          \* std::vector of realtime contexts, group g at g + 1
    packets,          \* packets[k]: packet sequence of telemetry sink k
    lastInitPublished,\* <<>> or <<most recent InitializeProcessingSettings>>
    resumes,          \* number of RealtimeResume notifications published
    call,             \* the operation last invoked and its arguments
    ret,              \* size_t returned by the last call (0 if it returns none)
    ok,               \* bool returned by the last call (TRUE if it returns none)
    fatal,            \* the process died in a null dereference
    offlineInit,      \* history: ProcessInitialize with no ProcessFinalize since
    rtActive,         \* history: RealtimeInitialize/AddProcessor, no RealtimeFinalize since
    numAdds,          \* history: RealtimeAddProcessor calls since contexts were cleared
    fed,              \* history: fed[g] = samples passed to group g's context since it was created
    fedSinceInit,     \* history: samples passed to group 0 since the last RealtimeInitialize
    calls,            \* history: number of handler calls made so far
    log,              \* history: what the last call did to the cores and publishers, in order
    lat,              \* two GetLatency queries: their inputs, results and progress
    conc,             \* two overlapping realtime calls on distinct groups: their
                      \* arguments, positions, locals and the locations they touched
    blk,              \* a block pair given to GetMaxDbIncrease and its result
    hist,             \* history of one telemetry stream: per packet the block
                      \* length and the samples bypassed before it
    race              \* a RealtimeProcess call overlapping the RealtimeAddProcessor
                      \* that creates its group: arguments and positions

vars == <<mCompressor, mpOutputs, mSampleCounter, mSampleRate, mBlockSize,
          mSlaves, packets, lastInitPublished, resumes, call, ret, ok, fatal,
          offlineInit, rtActive, numAdds, fed, fedSinceInit, calls, log, lat, conc, race,
          blk, hist>>

\* the variables of the instance and of the last call's outcome
instanceVars == <<mCompressor, mpOutputs, mSampleCounter, mSampleRate,
                  mBlockSize, mSlaves, packets, lastInitPublished, resumes,
                  fatal>>

\* variables only the specifications of single functions and of overlapping
\* calls use; the handlers leave them alone
aux == <<lat, conc, race, blk, hist>>

LatIdle == [a |-> 0, b |-> 0, rate |-> 0, outA |-> 0, outB |-> 0, pc |-> 0]

ConcIdle == [phase |-> "setup", thr |-> <<>>, acc |-> <<>>, start |-> <<>>]

RaceIdle == [phase |-> "setup", add |-> <<>>, proc |-> <<>>, start |-> <<>>]

BlkIdle == [in |-> <<>>, out |-> <<>>, pc |-> 0, result |-> <<>>]

HistIdle == [emitted |-> [k \in Sinks |-> <<>>],
             bypassed |-> [g \in 0..(MaxSlaves - 1) |-> 0],
             life |-> 0]

ZeroFed == [g \in 0..(MaxSlaves - 1) |-> 0]

Min(a, b) == IF a < b THEN a ELSE b

TotalPackets(pk) ==
    LET RECURSIVE Sum(_)
        Sum(k) == IF k = 0 THEN 0 ELSE Len(pk[k]) + Sum(k - 1)
    IN  Sum(Cardinality(Sinks))

Call(op, group, numSamples) ==
    [op |-> op, group |-> group, numSamples |-> numSamples]

\* One entry of log: a core operation or a publication, the group it was
\* for, the settings passed to the call and those the core held when it ran
Event(ev, group, passed, ranWith) ==
    [ev |-> ev, group |-> group, passed |-> passed, ranWith |-> ranWith]

\* A CompressorInstance as InstanceInit sees it (the instance itself or a slave)
NewSlave ==
    [mCompressor |-> NewCompressorProcessor, mpOutputs |-> NullOutputs,
     mSampleCounter |-> 0, order |-> 0]

Start ==
    /\ mCompressor = NewCompressorProcessor
    /\ mpOutputs = NullOutputs
    /\ mSampleCounter = 0
    /\ mSampleRate = Nullopt
    /\ mBlockSize = UnsetBlockSize
    /\ mSlaves = <<>>
    /\ packets = [k \in Sinks |-> <<>>]
    /\ lastInitPublished = <<>>
    /\ resumes = 0
    /\ call = Call("construct", 0, 0)
    /\ ret = 0
    /\ ok = TRUE
    /\ fatal = FALSE
    /\ offlineInit = FALSE
    /\ rtActive = FALSE
    /\ numAdds = 0
    /\ fed = ZeroFed
    /\ fedSinceInit = 0
    /\ calls = 0
    /\ log = <<>>

Init ==
    /\ Start
    /\ lat = LatIdle
    /\ conc = ConcIdle
    /\ race = RaceIdle
    /\ blk = BlkIdle
    /\ hist = HistIdle

\* ---------------------------------------------------------------- helpers
\* A null dereference kills the process: nothing of the instance survives,
\* only the fact that the call did not return.
Crash(op) ==
    /\ fatal' = TRUE
    /\ call' = Call(op, 0, 0)
    /\ log' = <<>>
    /\ mCompressor' = NewCompressorProcessor
    /\ mpOutputs' = NullOutputs
    /\ mSampleCounter' = 0
    /\ mSampleRate' = Nullopt
    /\ mBlockSize' = UnsetBlockSize
    /\ mSlaves' = <<>>
    /\ packets' = [k \in Sinks |-> <<>>]
    /\ lastInitPublished' = <<>>
    /\ resumes' = 0
    /\ ret' = 0
    /\ ok' = TRUE
    /\ offlineInit' = FALSE
    /\ rtActive' = FALSE
    /\ numAdds' = 0
    /\ fed' = ZeroFed
    /\ fedSinceInit' = 0

\* InstanceInit: attach the sink, apply the settings, Init the core
InstanceInit(settings, pOutputs, instance, numChannels, sampleRate, blockSize) ==
    [instance EXCEPT
        !.mpOutputs = pOutputs,
        !.mCompressor =
            CoreInit(ApplySettingsIfNeeded(@,
                         GetDynamicRangeProcessorSettings(settings)),
                     sampleRate, numChannels, blockSize)]

\* InstanceProcess that stops after the first 256 samples of a block
InstanceProcessPartial(settings, core, stats, blockLen) ==
    LET applied == ApplySettingsIfNeeded(core,
                       GetDynamicRangeProcessorSettings(settings))
    IN  [core |-> CoreProcess(applied, stats),
         processed |-> Min(blockLen, 256),
         ranWith |-> GetSettings(applied)]

\* InstanceProcess that runs the block before it applies the settings
InstanceProcessStale(settings, core, stats, blockLen) ==
    [core |-> ApplySettingsIfNeeded(CoreProcess(core, stats),
                  GetDynamicRangeProcessorSettings(settings)),
     processed |-> blockLen,
     ranWith |-> GetSettings(core)]

\* InstanceProcess: the core after the block, the number of samples
\* reported as processed and the settings the core held while Process ran
InstanceProcess(settings, core, stats, blockLen) ==
    LET applied == ApplySettingsIfNeeded(core,
                       GetDynamicRangeProcessorSettings(settings))
    IN  [core |-> CoreProcess(applied, stats),
         processed |-> blockLen,
         ranWith |-> GetSettings(applied)]

\* dynamic_cast<DynamicRangeProcessorOutputs*>(pOutputs): null for a null
\* pointer and for an EffectOutputs object of another type
ForeignOutputs == -1
OutputsSet == {NullOutputs, ForeignOutputs} \cup Sinks
DynamicCast(pOutputs) == IF pOutputs \in Sinks THEN pOutputs ELSE NullOutputs

\* clear() replaced by pop_back()
PopBack(slaves) == SubSeq(slaves, 1, Len(slaves) - 1)

\* emplace_back replaced by an insertion at the front
EmplaceFront(slaves, slave) == <<slave>> \o slaves

\* std::vector operations on mSlaves
Clear(slaves) == <<>>
EmplaceBack(slaves, slave) == Append(slaves, slave)
Size(slaves) == Len(slaves)
At(slaves, group) == slaves[group + 1]

\* history counter of samples: exact up to MaxSamples, then stuck just above
FedAdd(old, n) ==
    IF old + n > MaxSamples THEN MaxSamples + 1 ELSE old + n

\* ------------------------------------------------------- offline handlers
ProcessInitialize(settings, sampleRate) ==
    /\ ~fatal
    /\ IF SettingsCrash(settings)
       THEN Crash("ProcessInitialize")
       ELSE LET self == [mCompressor |-> mCompressor, mpOutputs |-> mpOutputs,
                         mSampleCounter |-> mSampleCounter, order |-> 0]
                r == InstanceInit(settings, NullOutputs, self, AudioInCount,
                                  ToFloat(sampleRate), mBlockSize)
            IN  /\ mSampleRate' = MakeOptional(sampleRate)
                /\ mpOutputs' = r.mpOutputs
                /\ mCompressor' = r.mCompressor
                /\ ok' = TRUE
                /\ ret' = 0
                /\ offlineInit' = TRUE
                /\ call' = Call("ProcessInitialize", 0, 0)
                /\ log' = <<>>
                /\ UNCHANGED <<mSampleCounter, mBlockSize, mSlaves, packets,
                               lastInitPublished, resumes, fatal, rtActive,
                               numAdds, fed, fedSinceInit>>

ProcessFinalize ==
    /\ ~fatal
    /\ mSampleRate' = Nullopt
    /\ ok' = TRUE
    /\ ret' = 0
    /\ offlineInit' = FALSE
    /\ call' = Call("ProcessFinalize", 0, 0)
    /\ log' = <<>>
    /\ UNCHANGED <<mCompressor, mpOutputs, mSampleCounter, mBlockSize, mSlaves,
                   packets, lastInitPublished, resumes, fatal, rtActive,
                   numAdds, fed, fedSinceInit>>

ProcessBlock(settings, stats, blockLen) ==
    /\ ~fatal
    /\ IF SettingsCrash(settings)
       THEN Crash("ProcessBlock")
       ELSE LET r == InstanceProcess(settings, mCompressor, stats, blockLen)
            IN  /\ mCompressor' = r.core
                /\ ret' = r.processed
                /\ ok' = TRUE
                /\ call' = Call("ProcessBlock", 0, blockLen)
                /\ log' = <<Event("Process", 0,
                                    GetDynamicRangeProcessorSettings(settings),
                                    r.ranWith)>>
                /\ UNCHANGED <<mpOutputs, mSampleCounter, mSampleRate,
                               mBlockSize, mSlaves, packets, lastInitPublished,
                               resumes, fatal, offlineInit, rtActive, numAdds,
                               fed, fedSinceInit>>

\* ------------------------------------------------------ realtime lifecycle
RealtimeInitialize(settings, sampleRate) ==
    /\ ~fatal
    /\ mBlockSize' = RealtimeBlockSize
    /\ mSlaves' = Clear(mSlaves)
    /\ mSampleCounter' = 0
    /\ mSampleRate' = MakeOptional(sampleRate)
    /\ lastInitPublished' = <<MakeOptional(sampleRate)>>
    /\ ok' = TRUE
    /\ ret' = 0
    /\ call' = Call("RealtimeInitialize", 0, 0)
    /\ log' = <<>>
    /\ rtActive' = TRUE
    /\ numAdds' = 0
    /\ fed' = ZeroFed
    /\ fedSinceInit' = 0
    /\ UNCHANGED <<mCompressor, mpOutputs, packets, resumes, fatal,
                   offlineInit>>

ReinitAll(slaves) ==
    [i \in 1..Len(slaves) |->
        [slaves[i] EXCEPT !.mCompressor = CoreReinit(@)]]

\* RealtimeResume that publishes before it re-primes the cores
ResumeEventsPublishFirst(slaves) ==
    <<Event("PublishResume", 0, <<>>, <<>>)>>
    \o [i \in 1..Len(slaves) |-> Event("Reinit", i - 1, <<>>, <<>>)]

\* The calls RealtimeResume makes: Reinit for each slave in vector order,
\* then RealtimeResumePublisher::Publish
ResumeEvents(slaves) ==
    [i \in 1..Len(slaves) |-> Event("Reinit", i - 1, <<>>, <<>>)]
    \o <<Event("PublishResume", 0, <<>>, <<>>)>>

RealtimeResume ==
    /\ ~fatal
    /\ resumes < MaxResumes
    /\ mSlaves' = ReinitAll(mSlaves)
    /\ resumes' = resumes + 1
    /\ ok' = TRUE
    /\ ret' = 0
    /\ call' = Call("RealtimeResume", 0, 0)
    /\ log' = ResumeEvents(mSlaves)
    /\ UNCHANGED <<mCompressor, mpOutputs, mSampleCounter, mSampleRate,
                   mBlockSize, packets, lastInitPublished, fatal,
                   offlineInit, rtActive, numAdds, fed, fedSinceInit>>

\* The slaves after RealtimeAddProcessor; k is the ordinal of this call
\* since the contexts were last cleared (history only)
AddProcessor(slaves, settings, pOutputs, numChannels, sampleRate, blockSize, k) ==
    LET grown == EmplaceBack(slaves, [NewSlave EXCEPT !.order = k])
    IN  [grown EXCEPT ![Len(grown)] =
            InstanceInit(settings, DynamicCast(pOutputs), @, numChannels,
                         sampleRate, blockSize)]

RealtimeAddProcessor(settings, pOutputs, numChannels, sampleRate) ==
    /\ ~fatal
    /\ Len(mSlaves) < MaxSlaves
    /\ IF SettingsCrash(settings)
       THEN Crash("RealtimeAddProcessor")
       ELSE /\ mSlaves' = AddProcessor(mSlaves, settings, pOutputs,
                              numChannels, ToFloat(sampleRate), mBlockSize,
                              numAdds + 1)
            /\ ok' = TRUE
            /\ ret' = 0
            /\ call' = Call("RealtimeAddProcessor", 0, 0)
            /\ log' = <<>>
            /\ rtActive' = TRUE
            /\ numAdds' = numAdds + 1
            /\ UNCHANGED <<mCompressor, mpOutputs, mSampleCounter, mSampleRate,
                           mBlockSize, packets, lastInitPublished, resumes,
                           fatal, offlineInit, fed, fedSinceInit>>

\* RealtimeFinalize without mSampleRate.reset()
FinalizedKeepsRate(slaves) ==
    [mSlaves |-> Clear(slaves), mSampleRate |-> mSampleRate,
     published |-> <<Nullopt>>, ok |-> TRUE]

\* RealtimeFinalize without the Publish call
FinalizedKeepsNotification(slaves) ==
    [mSlaves |-> Clear(slaves), mSampleRate |-> Nullopt,
     published |-> lastInitPublished, ok |-> TRUE]

\* The instance state RealtimeFinalize leaves behind
Finalized(slaves) ==
    [mSlaves |-> Clear(slaves), mSampleRate |-> Nullopt,
     published |-> <<Nullopt>>, ok |-> TRUE]

RealtimeFinalize(settings) ==
    /\ ~fatal
    /\ LET r == Finalized(mSlaves)
       IN  /\ mSlaves' = r.mSlaves
           /\ mSampleRate' = r.mSampleRate
           /\ lastInitPublished' = r.published
           /\ ok' = r.ok
    /\ ret' = 0
    /\ call' = Call("RealtimeFinalize", 0, 0)
    /\ log' = <<>>
    /\ rtActive' = FALSE
    /\ numAdds' = 0
    /\ fed' = ZeroFed
    /\ UNCHANGED <<mCompressor, mpOutputs, mSampleCounter, mBlockSize, packets,
                   resumes, fatal, offlineInit, fedSinceInit>>

\* ----------------------------------------------------- realtime processing
InRange(group, slaves) == group < Size(slaves)

\* The StatisticsPacket RealtimeProcess assembles after the block has run
NewPacket(slave, compressor, stats) ==
    LET frameStats == GetLastFrameStats(compressor, stats)
        compressorSettings == GetSettings(compressor)
        netGain == compressorSettings.outCompressionThreshDb
                   - compressorSettings.inCompressionThreshDb
        targetCompressionDb ==
            EvaluateTransferFunction(compressor, frameStats.maxInputSampleDb)
            - frameStats.maxInputSampleDb - netGain
    IN  [indexOfFirstSample |-> slave.mSampleCounter,
         targetCompressionDb |-> targetCompressionDb,
         actualCompressionDb |-> frameStats.dbAttenuationOfMaxInputSample]

\* Out-of-range branch that reports the block as processed
ProcessOutOfRangeReturnsLen(slaves, pk, numSamples) ==
    [mSlaves |-> slaves, packets |-> pk, ret |-> numSamples, log |-> <<>>]

\* Out-of-range branch of RealtimeProcess
ProcessOutOfRange(slaves, pk, numSamples) ==
    [mSlaves |-> slaves, packets |-> pk, ret |-> 0, log |-> <<>>]

\* In-range branch that advances the counter before it stamps the packet
ProcessInRangeIndexAfterAdvance(slaves, pk, group, settings, stats, numSamples) ==
    LET slave == At(slaves, group)
        r == InstanceProcess(settings, slave.mCompressor, stats, numSamples)
        compressor == r.core
        advanced ==
            [slave EXCEPT !.mCompressor = compressor,
                          !.mSampleCounter = @ + r.processed]
        emitted ==
            IF slave.mpOutputs # NullOutputs
            THEN [pk EXCEPT ![slave.mpOutputs] =
                     Append(@, NewPacket(advanced, compressor, stats))]
            ELSE pk
    IN  [mSlaves |-> [slaves EXCEPT ![group + 1] = advanced],
         packets |-> emitted, ret |-> r.processed,
         log |-> <<Event("Process", group,
                         GetDynamicRangeProcessorSettings(settings),
                         r.ranWith)>>]

\* In-range branch that assigns the packet list instead of appending to it
ProcessInRangeOverwrites(slaves, pk, group, settings, stats, numSamples) ==
    LET slave == At(slaves, group)
        r == InstanceProcess(settings, slave.mCompressor, stats, numSamples)
        compressor == r.core
        emitted ==
            IF slave.mpOutputs # NullOutputs
            THEN [pk EXCEPT ![slave.mpOutputs] =
                     <<NewPacket(slave, compressor, stats)>>]
            ELSE pk
        advanced ==
            [slave EXCEPT !.mCompressor = compressor,
                          !.mSampleCounter = @ + r.processed]
    IN  [mSlaves |-> [slaves EXCEPT ![group + 1] = advanced],
         packets |-> emitted, ret |-> r.processed,
         log |-> <<Event("Process", group,
                         GetDynamicRangeProcessorSettings(settings),
                         r.ranWith)>>]

\* In-range branch that leaves the sample counter where it was
ProcessInRangeNoAdvance(slaves, pk, group, settings, stats, numSamples) ==
    LET slave == At(slaves, group)
        r == InstanceProcess(settings, slave.mCompressor, stats, numSamples)
        compressor == r.core
        emitted ==
            IF slave.mpOutputs # NullOutputs
            THEN [pk EXCEPT ![slave.mpOutputs] =
                     Append(@, NewPacket(slave, compressor, stats))]
            ELSE pk
        advanced == [slave EXCEPT !.mCompressor = compressor]
    IN  [mSlaves |-> [slaves EXCEPT ![group + 1] = advanced],
         packets |-> emitted, ret |-> r.processed,
         log |-> <<Event("Process", group,
                         GetDynamicRangeProcessorSettings(settings),
                         r.ranWith)>>]

\* In-range branch of RealtimeProcess
ProcessInRange(slaves, pk, group, settings, stats, numSamples) ==
    LET slave == At(slaves, group)
        r == InstanceProcess(settings, slave.mCompressor, stats, numSamples)
        compressor == r.core
        emitted ==
            IF slave.mpOutputs # NullOutputs
            THEN [pk EXCEPT ![slave.mpOutputs] =
                     Append(@, NewPacket(slave, compressor, stats))]
            ELSE pk
        advanced ==
            [slave EXCEPT !.mCompressor = compressor,
                          !.mSampleCounter = @ + r.processed]
    IN  [mSlaves |-> [slaves EXCEPT ![group + 1] = advanced],
         packets |-> emitted, ret |-> r.processed,
         log |-> <<Event("Process", group,
                         GetDynamicRangeProcessorSettings(settings),
                         r.ranWith)>>]

RealtimeProcess(group, settings, stats, numSamples) ==
    /\ ~fatal
    /\ InRange(group, mSlaves) =>
          /\ At(mSlaves, group).mSampleCounter + numSamples <= MaxSamples
          /\ At(mSlaves, group).mpOutputs # NullOutputs =>
                TotalPackets(packets) < MaxPackets
    /\ IF InRange(group, mSlaves) /\ SettingsCrash(settings)
       THEN Crash("RealtimeProcess")
       ELSE LET r == IF InRange(group, mSlaves)
                     THEN ProcessInRange(mSlaves, packets, group, settings,
                                         stats, numSamples)
                     ELSE ProcessOutOfRange(mSlaves, packets, numSamples)
                counted == InRange(group, mSlaves)
            IN  /\ mSlaves' = r.mSlaves
                /\ packets' = r.packets
                /\ ret' = r.ret
                /\ ok' = TRUE
                /\ fed' = IF counted
                          THEN [fed EXCEPT ![group] = @ + numSamples] ELSE fed
                /\ fedSinceInit' =
                      IF counted /\ group = 0
                      THEN FedAdd(fedSinceInit, numSamples)
                      ELSE fedSinceInit
                /\ call' = Call("RealtimeProcess", group, numSamples)
                /\ log' = r.log
                /\ UNCHANGED <<mCompressor, mpOutputs, mSampleCounter,
                               mSampleRate, mBlockSize, lastInitPublished,
                               resumes, fatal, offlineInit, rtActive, numAdds>>

\* RealtimePassThrough that assigns the counter instead of adding to it
PassThroughAssigns(slaves, group, numSamples) ==
    IF group < Len(slaves)
    THEN [slaves EXCEPT ![group + 1].mSampleCounter = numSamples]
    ELSE slaves

\* RealtimePassThrough that advances every context's counter
PassThroughAll(slaves, group, numSamples) ==
    IF group < Len(slaves)
    THEN [i \in 1..Len(slaves) |->
             [slaves[i] EXCEPT !.mSampleCounter = @ + numSamples]]
    ELSE slaves

\* The slaves after RealtimePassThrough
PassThrough(slaves, group, numSamples) ==
    IF InRange(group, slaves)
    THEN [slaves EXCEPT ![group + 1].mSampleCounter = @ + numSamples]
    ELSE slaves

RealtimePassThrough(group, settings, numSamples) ==
    /\ ~fatal
    /\ InRange(group, mSlaves) =>
          At(mSlaves, group).mSampleCounter + numSamples <= MaxSamples
    /\ mSlaves' = PassThrough(mSlaves, group, numSamples)
    /\ ret' = 0
    /\ ok' = TRUE
    /\ fed' = IF InRange(group, mSlaves)
              THEN [fed EXCEPT ![group] = @ + numSamples] ELSE fed
    /\ fedSinceInit' =
          IF InRange(group, mSlaves) /\ group = 0
          THEN FedAdd(fedSinceInit, numSamples)
          ELSE fedSinceInit
    /\ call' = Call("RealtimePassThrough", group, numSamples)
    /\ log' = <<>>
    /\ UNCHANGED <<mCompressor, mpOutputs, mSampleCounter, mSampleRate,
                   mBlockSize, packets, lastInitPublished, resumes,
                   fatal, offlineInit, rtActive, numAdds>>

\* ---------------------------------------------------------------- latency
\* GetLatency with the lookahead first truncated to whole milliseconds
GetLatencyValueWholeMs(settings, sampleRate) ==
    ((GetDynamicRangeProcessorSettings(settings).lookaheadMs \div LookaheadDen)
        * sampleRate) \div 1000

\* lookaheadMs * sampleRate / 1000, converted to the integral SampleCount
\* (truncation; the operands are not negative)
GetLatencyValue(settings, sampleRate) ==
    (GetDynamicRangeProcessorSettings(settings).lookaheadMs * sampleRate)
        \div (LookaheadDen * 1000)

GetLatency(settings, sampleRate) ==
    /\ ~fatal
    /\ IF SettingsCrash(settings)
       THEN Crash("GetLatency")
       ELSE /\ ret' = GetLatencyValue(settings, sampleRate)
            /\ ok' = TRUE
            /\ call' = Call("GetLatency", 0, 0)
            /\ log' = <<>>
            /\ UNCHANGED <<mCompressor, mpOutputs, mSampleCounter, mSampleRate,
                           mBlockSize, mSlaves, packets, lastInitPublished,
                           resumes, fatal, offlineInit, rtActive, numAdds,
                           fed, fedSinceInit>>

\* ------------------------------------------------------------ specification
\* RealtimeInitialize, RealtimeFinalize, RealtimePassThrough and the
\* out-of-range branch of RealtimeProcess never read their settings argument,
\* and no block runs out of range: whatever is passed the outcome is the
\* same, so they are given the snapshot that no handler could interpret.
UnreadSettings ==
    {s \in EffectSettingsSet : /\ ~CastSucceeds(s, "CompressorSettings")
                               /\ ~CastSucceeds(s, "LimiterSettings")}
UnreadStats == {CHOOSE st \in FrameStatsSet : TRUE}

\* The callbacks address the existing groups and the first group that does
\* not exist (every larger index takes the same out-of-range branch)
AddressedGroups == {g \in Groups : g <= Size(mSlaves)}

Handler ==
    \/ \E s \in EffectSettingsSet, r \in SampleRates : ProcessInitialize(s, r)
    \/ ProcessFinalize
    \/ \E s \in EffectSettingsSet, st \in FrameStatsSet, n \in BlockLens :
          ProcessBlock(s, st, n)
    \/ \E s \in UnreadSettings, r \in SampleRates : RealtimeInitialize(s, r)
    \/ RealtimeResume
    \/ \E s \in EffectSettingsSet, o \in OutputsSet, c \in ChannelCounts,
          r \in AddSampleRates : RealtimeAddProcessor(s, o, c, r)
    \/ \E s \in UnreadSettings : RealtimeFinalize(s)
    \/ \E g \in AddressedGroups, n \in BlockLens :
          \E s \in IF InRange(g, mSlaves) THEN EffectSettingsSet
                    ELSE UnreadSettings,
             st \in IF InRange(g, mSlaves) THEN FrameStatsSet
                     ELSE UnreadStats :
             RealtimeProcess(g, s, st, n)
    \/ \E g \in AddressedGroups, s \in UnreadSettings, n \in BlockLens :
          RealtimePassThrough(g, s, n)

\* The host makes at most MaxCalls calls
Next == calls < MaxCalls /\ calls' = calls + 1 /\ Handler /\ UNCHANGED aux

Spec == Init /\ [][Next]_vars

\* ------------------------------------------------------ GetMaxDbIncrease
\* Samples are floats; a sample is held as a count of 1/SampleDen, and the
\* silence floor 1e-6 as 1/FloorInverse
SampleDen == 10000000
FloorInverse == 1000000

Abs(x) == IF x < 0 THEN -x ELSE x

\* a ratio |out| / |in| as a fraction, compared by cross-multiplication
Ratio(num, den) == [num |-> num, den |-> den]
RatioLess(a, b) == a.num * b.den < b.num * a.den

\* std::max(a, b): b if a < b, else a
StdMax(a, b) == IF RatioLess(a, b) THEN b ELSE a

\* absIn < 1e-6
BelowFloor(absIn) == absIn * FloorInverse < SampleDen

\* The conversion log2ToDb * FastLog2(ratio), as the sign of the result:
\* negative below ratio 1, zero at 1, positive above
FastLog2Sign(ratio) ==
    IF ratio.num < ratio.den THEN -1 ELSE IF ratio.num = ratio.den THEN 0 ELSE 1

NegInf == [negInf |-> TRUE, ratio |-> Ratio(0, 1), dbSign |-> -1]

\* GetMaxDbIncrease that only skips samples that are exactly zero
GetMaxDbIncreaseNoFloor(in, out, blockLen) ==
    LET RECURSIVE Loop(_, _)
        Loop(i, leastRatio) ==
            IF i > blockLen THEN leastRatio
            ELSE LET absIn == Abs(in[i])
                 IN  IF absIn = 0
                     THEN Loop(i + 1, leastRatio)
                     ELSE Loop(i + 1,
                               StdMax(Ratio(Abs(out[i]), absIn), leastRatio))
        leastRatio == Loop(1, Ratio(0, 1))
    IN  IF leastRatio.num = 0
        THEN NegInf
        ELSE [negInf |-> FALSE, ratio |-> leastRatio,
              dbSign |-> FastLog2Sign(leastRatio)]

\* GetMaxDbIncrease: the largest |out| / |in| over the samples whose input
\* is not below the floor, in dB; minus infinity if that is 0
GetMaxDbIncrease(in, out, blockLen) ==
    LET RECURSIVE Loop(_, _)
        Loop(i, leastRatio) ==
            IF i > blockLen THEN leastRatio
            ELSE LET absIn == Abs(in[i])
                 IN  IF BelowFloor(absIn)
                     THEN Loop(i + 1, leastRatio)
                     ELSE Loop(i + 1,
                               StdMax(Ratio(Abs(out[i]), absIn), leastRatio))
        leastRatio == Loop(1, Ratio(0, 1))
    IN  IF leastRatio.num = 0
        THEN NegInf
        ELSE [negInf |-> FALSE, ratio |-> leastRatio,
              dbSign |-> FastLog2Sign(leastRatio)]

\* input samples: silence, below the floor, at the floor, above it
InSamples == {0, 5, -10, 20, -40}
OutSamples == {0, -5, 10, 20, 40}

BlocksOf(samples) == UNION {[1..n -> samples] : n \in 0..MaxBlockLen}

InitDb ==
    /\ Start
    /\ lat = LatIdle
    /\ conc = ConcIdle
    /\ race = RaceIdle
    /\ hist = HistIdle
    /\ \E in \in BlocksOf(InSamples), out \in BlocksOf(OutSamples) :
          /\ Len(in) = Len(out)
          /\ blk = [in |-> in, out |-> out, pc |-> 0, result |-> <<>>]

ApplyGetMaxDbIncrease ==
    /\ blk.pc = 0
    /\ blk' = [blk EXCEPT !.pc = 1,
                          !.result = GetMaxDbIncrease(blk.in, blk.out,
                                                      Len(blk.in))]
    /\ UNCHANGED <<mCompressor, mpOutputs, mSampleCounter, mSampleRate,
                   mBlockSize, mSlaves, packets, lastInitPublished, resumes,
                   call, ret, ok, fatal, offlineInit, rtActive, numAdds, fed,
                   fedSinceInit, calls, log, lat, conc, race, hist>>

NextDb == ApplyGetMaxDbIncrease

SpecDb == InitDb /\ [][NextDb]_vars

\* ------------------------------ specification: one realtime telemetry stream
\* The realtime handlers with interpretable settings; hist records, next to
\* each packet, the length of the block that produced it, the context and
\* lifetime it belongs to and the samples bypassed on that context since its
\* previous block.
StreamSettings == {s \in EffectSettingsSet : CastSucceeds(s, "CompressorSettings")}

StreamHandler ==
    \/ \E s \in StreamSettings, r \in AddSampleRates : RealtimeInitialize(s, r)
    \/ \E s \in StreamSettings, o \in Sinks \cup {NullOutputs},
          c \in ChannelCounts, r \in AddSampleRates :
          RealtimeAddProcessor(s, o, c, r)
    \/ \E s \in StreamSettings : RealtimeFinalize(s)
    \/ \E g \in Groups, s \in StreamSettings, st \in FrameStatsSet,
          n \in BlockLens : RealtimeProcess(g, s, st, n)
    \/ \E g \in Groups, s \in StreamSettings, n \in BlockLens :
          RealtimePassThrough(g, s, n)

\* hist after the call that has just been made
HistAfter ==
    LET op == call'.op
        g == call'.group
    IN  IF op = "RealtimeProcess" /\ InRange(g, mSlaves)
        THEN LET sink == At(mSlaves, g).mpOutputs
             IN  IF sink # NullOutputs
                 THEN [hist EXCEPT
                         !.emitted[sink] =
                             Append(@, [numSamples |-> call'.numSamples,
                                        group |-> g, life |-> hist.life,
                                        bypassed |-> hist.bypassed[g]]),
                         !.bypassed[g] = 0]
                 ELSE hist
        ELSE IF op = "RealtimePassThrough" /\ InRange(g, mSlaves)
        THEN [hist EXCEPT !.bypassed[g] = @ + call'.numSamples]
        ELSE IF op \in {"RealtimeInitialize", "RealtimeFinalize"}
        THEN [hist EXCEPT !.life = @ + 1,
                          !.bypassed = [h \in DOMAIN @ |-> 0]]
        ELSE hist

NextStream ==
    /\ calls < MaxStreamCalls
    /\ calls' = calls + 1
    /\ StreamHandler
    /\ hist' = HistAfter
    /\ UNCHANGED <<lat, conc, race, blk>>

SpecStream == Init /\ [][NextStream]_vars

\* ------------------------- specification: every operation that takes settings
\* The handlers together with GetLatency, for short call sequences
NextSettings ==
    /\ calls < MaxSettingsCalls
    /\ calls' = calls + 1
    /\ \/ Handler
       \/ \E s \in EffectSettingsSet, r \in SampleRates : GetLatency(s, r)
    /\ UNCHANGED aux

SpecSettings == Init /\ [][NextSettings]_vars

\* ------------------------------------------- specification: GetLatency alone
\* Lookahead durations in 1/LookaheadDen ms: 0, three sub-sample steps, 1 ms, 2 ms
LookaheadSet == {0, 1, 2, 3, 64, 128}

ValidSettingsSet == {s \in EffectSettingsSet : ~SettingsCrash(s)}

WithLookahead(settings, lookahead) ==
    [settings EXCEPT !.drp.lookaheadMs = lookahead]

InitLatency ==
    /\ Start
    /\ conc = ConcIdle
    /\ race = RaceIdle
    /\ blk = BlkIdle
    /\ hist = HistIdle
    /\ lat \in [a : LookaheadSet, b : LookaheadSet, rate : SampleRates,
                 outA : {0}, outB : {0}, pc : {0}]

\* first query: lookahead a
QueryA ==
    /\ lat.pc = 0
    /\ \E s \in ValidSettingsSet : GetLatency(WithLookahead(s, lat.a), lat.rate)
    /\ lat' = [lat EXCEPT !.outA = ret', !.pc = 1]
    /\ UNCHANGED <<calls, conc, race, blk, hist>>

\* second query: lookahead b, same sample rate
QueryB ==
    /\ lat.pc = 1
    /\ \E s \in ValidSettingsSet : GetLatency(WithLookahead(s, lat.b), lat.rate)
    /\ lat' = [lat EXCEPT !.outB = ret', !.pc = 2]
    /\ UNCHANGED <<calls, conc, race, blk, hist>>

\* the instance is initialised or finalised for offline use around the queries
LatencyLifecycle ==
    /\ lat.pc < 2
    /\ \/ \E s \in ValidSettingsSet, r \in SampleRates : ProcessInitialize(s, r)
       \/ ProcessFinalize
    /\ UNCHANGED <<lat, calls, conc, race, blk, hist>>

NextLatency == QueryA \/ QueryB \/ LatencyLifecycle

SpecLatency == InitLatency /\ [][NextLatency]_vars

\* --------------------- specification: overlapping calls on distinct groups
\* Two callback threads, thread t serving its own group, each make one
\* RealtimeProcess or RealtimePassThrough call; the calls advance statement
\* by statement.  packets.emplace_back is a read of the vector's end followed
\* by a write of the element and of the new end.
Threads == {0, 1}

NoAccess == [t \in Threads |-> {}]

Touch(acc, t, locs) == [acc EXCEPT ![t] = @ \cup locs]

Rd(loc) == [loc |-> loc, w |-> FALSE]
Wr(loc) == [loc |-> loc, w |-> TRUE]

\* the contexts are created while the callbacks are quiesced
ConcSetup ==
    /\ conc.phase = "setup"
    /\ \/ \E s \in ValidSettingsSet, r \in AddSampleRates : RealtimeInitialize(s, r)
       \/ \E s \in ValidSettingsSet, o \in OutputsSet, c \in ChannelCounts,
             r \in AddSampleRates : RealtimeAddProcessor(s, o, c, r)
    /\ UNCHANGED <<lat, conc, calls, race, blk, hist>>

\* both callbacks enter their call; thread 1 may address a group that does
\* not exist
ConcBegin ==
    /\ conc.phase = "setup"
    /\ ~fatal
    /\ Size(mSlaves) = 2
    /\ \E op0, op1 \in {"RealtimeProcess", "RealtimePassThrough"},
          g1 \in Groups \ {0},
          s0, s1 \in ValidSettingsSet,
          st0, st1 \in FrameStatsSet,
          n0, n1 \in BlockLens \ {0} :
          conc' = [phase |-> "run",
                   thr |-> [t \in Threads |->
                              [op |-> IF t = 0 THEN op0 ELSE op1,
                               group |-> IF t = 0 THEN 0 ELSE g1,
                               settings |-> IF t = 0 THEN s0 ELSE s1,
                               stats |-> IF t = 0 THEN st0 ELSE st1,
                               numSamples |-> IF t = 0 THEN n0 ELSE n1,
                               pc |-> "check", end |-> 0, ret |-> 0]],
                   acc |-> NoAccess,
                   start |-> [mSlaves |-> mSlaves, packets |-> packets]]
    /\ UNCHANGED <<mCompressor, mpOutputs, mSampleCounter, mSampleRate,
                   mBlockSize, mSlaves, packets, lastInitPublished, resumes,
                   call, ret, ok, fatal, offlineInit, rtActive, numAdds, fed,
                   fedSinceInit, calls, log, lat, race, blk, hist>>

ConcFrame ==
    UNCHANGED <<mCompressor, mpOutputs, mSampleCounter, mSampleRate,
                mBlockSize, lastInitPublished, resumes, call, ret, ok,
                offlineInit, rtActive, numAdds, fed, fedSinceInit, calls, log,
                lat, race, blk, hist>>

\* group >= mSlaves.size() (lines 125, 157)
ConcCheck(t) ==
    LET th == conc.thr[t]
    IN  /\ conc.phase = "run"
        /\ th.pc = "check"
        /\ conc' = [conc EXCEPT
              !.thr[t].pc = IF ~InRange(th.group, mSlaves) THEN "done"
                            ELSE IF th.op = "RealtimeProcess" THEN "process"
                            ELSE "advance",
              !.acc = Touch(@, t, {Rd(<<"size">>)})]
        /\ UNCHANGED <<mSlaves, packets, fatal>>
        /\ ConcFrame

\* InstanceProcess on the context's core (lines 127-130)
ConcProcess(t) ==
    LET th == conc.thr[t]
        slave == At(mSlaves, th.group)
        r == InstanceProcess(th.settings, slave.mCompressor, th.stats,
                             th.numSamples)
    IN  /\ conc.phase = "run"
        /\ th.pc = "process"
        /\ mSlaves' = [mSlaves EXCEPT ![th.group + 1].mCompressor = r.core]
        /\ conc' = [conc EXCEPT
              !.thr[t].pc = IF slave.mpOutputs # NullOutputs
                            THEN "emplace" ELSE "advance",
              !.thr[t].ret = r.processed,
              !.acc = Touch(@, t, {Wr(<<"core", th.group>>),
                                   Rd(<<"sink", th.group>>)})]
        /\ UNCHANGED <<packets, fatal>>
        /\ ConcFrame

\* packets.emplace_back(), first half: find the end of the vector (line 141)
ConcEmplace(t) ==
    LET th == conc.thr[t]
        slave == At(mSlaves, th.group)
    IN  /\ conc.phase = "run"
        /\ th.pc = "emplace"
        /\ conc' = [conc EXCEPT
              !.thr[t].pc = "fill",
              !.thr[t].end = Len(packets[slave.mpOutputs]),
              !.acc = Touch(@, t, {Rd(<<"packets", slave.mpOutputs>>)})]
        /\ UNCHANGED <<mSlaves, packets, fatal>>
        /\ ConcFrame

\* packets.emplace_back(), second half, and the packet's fields (lines
\* 141-144).  When the other call moved the end of the same vector in the
\* meantime the two unsynchronised writes are a data race: the element
\* lands on the slot this call found and the end is set behind it, or the
\* vector's storage is corrupted and the process dies.
ConcFill(t) ==
    LET th == conc.thr[t]
        slave == At(mSlaves, th.group)
        k == slave.mpOutputs
        pkt == NewPacket(slave, slave.mCompressor, th.stats)
        touched == Touch(conc.acc, t, {Wr(<<"packets", k>>),
                                       Rd(<<"counter", th.group>>),
                                       Rd(<<"core", th.group>>)})
    IN  /\ conc.phase = "run"
        /\ th.pc = "fill"
        /\ \/ /\ packets' = [packets EXCEPT ![k] =
                                 Append(SubSeq(@, 1, th.end), pkt)]
              /\ conc' = [conc EXCEPT !.thr[t].pc = "advance",
                                      !.acc = touched]
              /\ UNCHANGED fatal
           \/ /\ Len(packets[k]) # th.end
              /\ fatal' = TRUE
              /\ conc' = [conc EXCEPT !.phase = "dead", !.acc = touched]
              /\ UNCHANGED packets
        /\ UNCHANGED mSlaves
        /\ ConcFrame

\* mSampleCounter += (lines 146, 158)
ConcAdvance(t) ==
    LET th == conc.thr[t]
        n == IF th.op = "RealtimeProcess" THEN th.ret ELSE th.numSamples
    IN  /\ conc.phase = "run"
        /\ th.pc = "advance"
        /\ mSlaves' = [mSlaves EXCEPT ![th.group + 1].mSampleCounter = @ + n]
        /\ conc' = [conc EXCEPT
              !.thr[t].pc = "done",
              !.thr[t].ret = n,
              !.acc = Touch(@, t, {Wr(<<"counter", th.group>>)})]
        /\ UNCHANGED <<packets, fatal>>
        /\ ConcFrame

NextConc ==
    \/ ConcSetup
    \/ ConcBegin
    \/ \E t \in Threads : ConcCheck(t)
    \/ \E t \in Threads : ConcProcess(t)
    \/ \E t \in Threads : ConcEmplace(t)
    \/ \E t \in Threads : ConcFill(t)
    \/ \E t \in Threads : ConcAdvance(t)

SpecConc == Init /\ [][NextConc]_vars

\* The contexts and sinks after the call of thread th, made alone on st
AfterCall(st, th) ==
    IF th.op = "RealtimePassThrough"
    THEN [mSlaves |-> PassThrough(st.mSlaves, th.group, th.numSamples),
          packets |-> st.packets]
    ELSE LET r == IF InRange(th.group, st.mSlaves)
                  THEN ProcessInRange(st.mSlaves, st.packets, th.group,
                                      th.settings, th.stats, th.numSamples)
                  ELSE ProcessOutOfRange(st.mSlaves, st.packets,
                                         th.numSamples)
         IN  [mSlaves |-> r.mSlaves, packets |-> r.packets]

\* The outcomes of making the two calls one after the other
SequentialOutcomes ==
    {AfterCall(AfterCall(conc.start, conc.thr[0]), conc.thr[1]),
     AfterCall(AfterCall(conc.start, conc.thr[1]), conc.thr[0])}

\* One call wrote a location the other call read or wrote
Conflict ==
    \E a \in conc.acc[0], b \in conc.acc[1] : a.loc = b.loc /\ (a.w \/ b.w)

BothDone == \A t \in Threads : conc.thr[t].pc = "done"

\* ------------- specification: RealtimeProcess overlapping RealtimeAddProcessor
\* The host thread runs RealtimeAddProcessor statement by statement while the
\* callback thread of the group being created makes one RealtimeProcess call.
RaceSetup ==
    /\ race.phase = "setup"
    /\ \/ \E s \in ValidSettingsSet, r \in AddSampleRates : RealtimeInitialize(s, r)
       \/ \E s \in ValidSettingsSet, o \in OutputsSet, c \in ChannelCounts,
             r \in AddSampleRates : RealtimeAddProcessor(s, o, c, r)
    /\ UNCHANGED <<lat, conc, race, calls, blk, hist>>

\* RealtimeAddProcessor is entered for the next group and the callback of
\* that group enters RealtimeProcess
RaceBegin ==
    /\ race.phase = "setup"
    /\ ~fatal
    /\ Size(mSlaves) < MaxSlaves
    /\ \E sa, sp \in ValidSettingsSet, o \in OutputsSet, c \in ChannelCounts,
          r \in AddSampleRates, st \in FrameStatsSet, n \in BlockLens \ {0} :
          race' = [phase |-> "run",
                   add |-> [pc |-> "emplace", settings |-> sa, pOutputs |-> o,
                            numChannels |-> c, sampleRate |-> ToFloat(r)],
                   proc |-> [pc |-> "check", group |-> Size(mSlaves),
                             settings |-> sp, stats |-> st, numSamples |-> n,
                             inRange |-> FALSE, stage |-> "", ret |-> 0],
                   start |-> [mSlaves |-> mSlaves, packets |-> packets]]
    /\ UNCHANGED <<mCompressor, mpOutputs, mSampleCounter, mSampleRate,
                   mBlockSize, mSlaves, packets, lastInitPublished, resumes,
                   call, ret, ok, fatal, offlineInit, rtActive, numAdds, fed,
                   fedSinceInit, calls, log, lat, conc, blk, hist>>

RaceFrame ==
    UNCHANGED <<mCompressor, mpOutputs, mSampleCounter, mSampleRate,
                mBlockSize, lastInitPublished, resumes, call, ret, ok, fatal,
                offlineInit, rtActive, fed, fedSinceInit, calls, log, lat,
                conc, blk, hist>>

\* mSlaves.emplace_back(mProcessor) (line 106)
RaceEmplace ==
    /\ race.phase = "run"
    /\ race.add.pc = "emplace"
    /\ mSlaves' = EmplaceBack(mSlaves, [NewSlave EXCEPT !.order = numAdds + 1])
    /\ numAdds' = numAdds + 1
    /\ race' = [race EXCEPT !.add.pc = "attach"]
    /\ UNCHANGED packets
    /\ RaceFrame

\* instance.mpOutputs = pOutputs (line 165)
RaceAttach ==
    /\ race.phase = "run"
    /\ race.add.pc = "attach"
    /\ mSlaves' = [mSlaves EXCEPT ![Len(mSlaves)].mpOutputs =
                      DynamicCast(race.add.pOutputs)]
    /\ race' = [race EXCEPT !.add.pc = "apply"]
    /\ UNCHANGED <<packets, numAdds>>
    /\ RaceFrame

\* instance.mCompressor->ApplySettingsIfNeeded(...) (lines 166-167)
RaceApply ==
    /\ race.phase = "run"
    /\ race.add.pc = "apply"
    /\ mSlaves' = [mSlaves EXCEPT ![Len(mSlaves)].mCompressor =
                      ApplySettingsIfNeeded(@,
                          GetDynamicRangeProcessorSettings(race.add.settings))]
    /\ race' = [race EXCEPT !.add.pc = "init"]
    /\ UNCHANGED <<packets, numAdds>>
    /\ RaceFrame

\* instance.mCompressor->Init(sampleRate, numChannels, GetBlockSize()) (line 168)
RaceCoreInit ==
    /\ race.phase = "run"
    /\ race.add.pc = "init"
    /\ mSlaves' = [mSlaves EXCEPT ![Len(mSlaves)].mCompressor =
                      CoreInit(@, race.add.sampleRate, race.add.numChannels,
                               mBlockSize)]
    /\ race' = [race EXCEPT !.add.pc = "done"]
    /\ UNCHANGED <<packets, numAdds>>
    /\ RaceFrame

\* group >= mSlaves.size() (lines 125-126)
RaceCheck ==
    /\ race.phase = "run"
    /\ race.proc.pc = "check"
    /\ race' = [race EXCEPT
          !.proc.inRange = InRange(race.proc.group, mSlaves),
          !.proc.pc = IF InRange(race.proc.group, mSlaves)
                      THEN "process" ELSE "done"]
    /\ UNCHANGED <<mSlaves, packets, numAdds>>
    /\ RaceFrame

\* InstanceProcess on the context as the add has left it so far (lines 127-130)
RaceProcess ==
    LET p == race.proc
        slave == At(mSlaves, p.group)
        r == InstanceProcess(p.settings, slave.mCompressor, p.stats,
                             p.numSamples)
    IN  /\ race.phase = "run"
        /\ p.pc = "process"
        /\ mSlaves' = [mSlaves EXCEPT ![p.group + 1].mCompressor = r.core]
        /\ race' = [race EXCEPT !.proc.pc = "emit", !.proc.ret = r.processed,
                                !.proc.stage = race.add.pc]
        /\ UNCHANGED <<packets, numAdds>>
        /\ RaceFrame

\* packet emission if a sink is attached by now, counter advance (lines 131-147)
RaceEmit ==
    LET p == race.proc
        slave == At(mSlaves, p.group)
    IN  /\ race.phase = "run"
        /\ p.pc = "emit"
        /\ packets' = IF slave.mpOutputs # NullOutputs
                       THEN [packets EXCEPT ![slave.mpOutputs] =
                               Append(@, NewPacket(slave, slave.mCompressor,
                                                   p.stats))]
                       ELSE packets
        /\ mSlaves' = [mSlaves EXCEPT ![p.group + 1].mSampleCounter =
                          @ + p.ret]
        /\ race' = [race EXCEPT !.proc.pc = "done"]
        /\ UNCHANGED numAdds
        /\ RaceFrame

NextRace ==
    \/ RaceSetup
    \/ RaceBegin
    \/ RaceEmplace
    \/ RaceAttach
    \/ RaceApply
    \/ RaceCoreInit
    \/ RaceCheck
    \/ RaceProcess
    \/ RaceEmit

SpecRace == Init /\ [][NextRace]_vars

\* ------------------------------------------------------------------ claims
Counter(g) == mSlaves[g + 1].mSampleCounter

\* C1: a RealtimeProcess whose group index is >= the number of contexts
\* returns 0, appends no packet to any sink and leaves every context (and so
\* every sample counter) as it was, whatever the state, also with no context.
C1_OutOfRangeProcessIsNoOp ==
    [][(call'.op = "RealtimeProcess" /\ call'.group >= Len(mSlaves)) =>
          /\ ~fatal'
          /\ ret' = 0
          /\ packets' = packets
          /\ Len(mSlaves') = Len(mSlaves)
          /\ \A i \in 1..Len(mSlaves) :
                mSlaves'[i].mSampleCounter = mSlaves[i].mSampleCounter]_vars

\* one context with 512 samples counted, then a call on the missing group 1
C1_Witness ==
    /\ call.op = "RealtimeProcess"
    /\ call.numSamples = 512
    /\ Len(mSlaves) = 1
    /\ call.group = 1
    /\ Counter(0) = 512
    /\ ret = 0

C3_PacketIndexIsCounterBeforeCall ==
    [][(call'.op = "RealtimeProcess" /\ call'.group < Len(mSlaves) /\ ~fatal'
        /\ mSlaves[call'.group + 1].mpOutputs # NullOutputs) =>
          LET g == call'.group
              sink == mSlaves[g + 1].mpOutputs
          IN  /\ Len(packets'[sink]) > 0
              /\ packets'[sink][Len(packets'[sink])].indexOfFirstSample
                     = mSlaves[g + 1].mSampleCounter
              /\ mSlaves'[g + 1].mSampleCounter
                     = mSlaves[g + 1].mSampleCounter + ret']_vars

\* first packet of a fresh context at 0, the packet after a 512-sample block at 512
C3_Witness ==
    \E k \in Sinks :
        /\ Len(packets[k]) = 2
        /\ packets[k][1].indexOfFirstSample = 0
        /\ packets[k][2].indexOfFirstSample = 512
        /\ call.op = "RealtimeProcess"

\* The call of this step is an in-range RealtimeProcess that returned, on a
\* context whose sink is k
EmitsTo(k) ==
    /\ call'.op = "RealtimeProcess"
    /\ call'.group < Len(mSlaves)
    /\ ~fatal'
    /\ mSlaves[call'.group + 1].mpOutputs = k

\* C4: a call that returns changes a sink only by appending exactly one
\* packet after the packets already there, and only when it is an in-range
\* RealtimeProcess on a context attached to that sink; every other handler
\* leaves every packet sequence unchanged.
C4_SinksAppendOnly ==
    [][~fatal' =>
        \A k \in Sinks :
            IF EmitsTo(k)
            THEN /\ Len(packets'[k]) = Len(packets[k]) + 1
                 /\ SubSeq(packets'[k], 1, Len(packets[k])) = packets[k]
            ELSE packets'[k] = packets[k]]_vars

\* a second packet appended behind the first, which stayed as it was
C4_Witness ==
    /\ call.op = "RealtimeProcess"
    /\ \E k \in Sinks :
          /\ Len(packets[k]) = 2
          /\ packets[k][1].indexOfFirstSample = 0
          /\ packets[k][2].indexOfFirstSample = 256

\* C5: RealtimePassThrough on an in-range group adds numSamples to that
\* context's counter and changes nothing else; on an out-of-range group it
\* changes nothing.
C5_PassThroughFrame ==
    [][call'.op = "RealtimePassThrough" =>
          /\ mSlaves' = IF call'.group < Len(mSlaves)
                        THEN [mSlaves EXCEPT ![call'.group + 1].mSampleCounter =
                                 @ + call'.numSamples]
                        ELSE mSlaves
          /\ UNCHANGED <<mCompressor, mpOutputs, mSampleCounter, mSampleRate,
                         mBlockSize, packets, lastInitPublished, resumes,
                         fatal>>]_vars

\* group 1 bypassed for 256 samples while group 0 stays at 512
C5_Witness ==
    /\ call.op = "RealtimePassThrough"
    /\ call.group = 1
    /\ call.numSamples = 256
    /\ Len(mSlaves) = 2
    /\ Counter(0) = 512
    /\ Counter(1) = 256

RealtimeSteadyOps ==
    {"RealtimeAddProcessor", "RealtimeProcess", "RealtimePassThrough",
     "RealtimeResume"}

C7_ContextsClearedOnlyTogether ==
    [][~fatal' =>
          \/ Len(mSlaves') = Len(mSlaves)
          \/ /\ Len(mSlaves') = Len(mSlaves) + 1
             /\ call'.op = "RealtimeAddProcessor"
          \/ /\ Len(mSlaves') = 0
             /\ call'.op \in {"RealtimeInitialize", "RealtimeFinalize"}]_vars

\* contexts that emitted a packet are gone after RealtimeInitialize
C7_Witness ==
    /\ call.op = "RealtimeInitialize"
    /\ Len(mSlaves) = 0
    /\ \E k \in Sinks : Len(packets[k]) = 1

\* C8: after RealtimeFinalize there is no context, no sample rate, the last
\* initialize-settings notification is the absent one and the call reported
\* success; and a RealtimeProcess made while no context has been added since
\* the contexts were cleared returns 0.
C8_FinalizeClearsEverything ==
    /\ call.op = "RealtimeFinalize" =>
          /\ Len(mSlaves) = 0
          /\ mSampleRate = Nullopt
          /\ lastInitPublished = <<Nullopt>>
          /\ ok
    /\ (call.op = "RealtimeProcess" /\ numAdds = 0 /\ ~fatal) => ret = 0

\* RealtimeFinalize on a realtime-initialised instance that had emitted a packet
C8_Witness ==
    /\ call.op = "RealtimeFinalize"
    /\ mBlockSize = RealtimeBlockSize
    /\ \E k \in Sinks : Len(packets[k]) = 1
    /\ mSampleRate = Nullopt

\* C9: the instance is never offline-initialised and realtime-active at once.
C9_ModesMutuallyExclusive == ~(offlineInit /\ rtActive)

\* C10: ProcessBlock returns blockLen and an in-range RealtimeProcess returns
\* numSamples, for every block length.
C10_NoPartialProcessing ==
    /\ (call.op = "ProcessBlock" /\ ~fatal) => ret = call.numSamples
    /\ (call.op = "RealtimeProcess" /\ ~fatal /\ call.group < Len(mSlaves)) =>
          ret = call.numSamples

\* a 512-sample block through an existing context
C10_Witness ==
    /\ call.op = "RealtimeProcess"
    /\ call.group < Len(mSlaves)
    /\ call.numSamples = 512
    /\ ret = 512

\* C11 (as amended): GetLatency changes no instance state and its result
\* depends on (settings, sampleRate) only: equal lookaheads give equal counts
\* whatever happened to the instance in between; at a fixed sample rate a
\* longer lookahead never gives a smaller count, and gives a larger one when
\* it is longer by at least one sample period (1000 / sampleRate ms).
C11_LatencyPureAndMonotone ==
    [][(lat.pc = 1 /\ lat'.pc = 2) =>
          /\ UNCHANGED instanceVars
          /\ lat'.a = lat'.b => lat'.outA = lat'.outB
          /\ lat'.a <= lat'.b => lat'.outA <= lat'.outB
          /\ (lat'.b - lat'.a) * lat'.rate >= 1000 * LookaheadDen =>
                lat'.outA < lat'.outB
          /\ LookaheadDen * 1000 * lat'.outB <= lat'.b * lat'.rate
          /\ lat'.b * lat'.rate < LookaheadDen * 1000 * (lat'.outB + 1)]_vars

\* 1 ms then 2 ms at 44100 Hz: 44 then 88 samples, the instance having been
\* initialised at another rate in between
C11_Witness ==
    /\ lat.pc = 2
    /\ lat.a = 64
    /\ lat.b = 128
    /\ lat.rate = 44100
    /\ lat.outA = 44
    /\ lat.outB = 88
    /\ mSampleRate = MakeOptional(48000)

\* C11 as stated: at a fixed sample rate a longer lookahead gives a strictly
\* larger sample count.
C11_LatencyStrictlyIncreasing ==
    (lat.pc = 2 /\ lat.a < lat.b) => lat.outA < lat.outB

C13_RaceWithAddIsBenign ==
    (race.phase = "run" /\ race.proc.pc = "done") =>
        \/ /\ ~race.proc.inRange
           /\ race.proc.ret = 0
           /\ packets = race.start.packets
           /\ InRange(race.proc.group, mSlaves) =>
                 At(mSlaves, race.proc.group).mSampleCounter = 0
        \/ /\ race.proc.inRange
           /\ race.proc.stage = "done"

\* C14: a RealtimeResume that returns has called Reinit on the core of every
\* context exactly once, then published one resume notification after the
\* last Reinit, and has left the number of contexts, every context's sample
\* counter, sink and applied settings, the instance's sample rate and every
\* sink's packets unchanged; with no context it only publishes.
C14_ResumeReinitsEachOnceThenPublishes ==
    [][(call'.op = "RealtimeResume" /\ ~fatal') =>
          /\ Len(log') = Len(mSlaves) + 1
          /\ \A g \in 0..(Len(mSlaves) - 1) :
                Cardinality({i \in 1..Len(mSlaves) :
                    log'[i].ev = "Reinit" /\ log'[i].group = g}) = 1
          /\ log'[Len(log')].ev = "PublishResume"
          /\ resumes' = resumes + 1
          /\ Len(mSlaves') = Len(mSlaves)
          /\ \A i \in 1..Len(mSlaves) :
                /\ mSlaves'[i].mSampleCounter = mSlaves[i].mSampleCounter
                /\ mSlaves'[i].mpOutputs = mSlaves[i].mpOutputs
                /\ mSlaves'[i].order = mSlaves[i].order
                /\ GetSettings(mSlaves'[i].mCompressor)
                      = GetSettings(mSlaves[i].mCompressor)
          /\ UNCHANGED <<mSampleRate, packets, lastInitPublished,
                         mCompressor, mpOutputs, mSampleCounter>>]_vars

\* resume with two contexts, one of which has emitted a packet
C14_Witness ==
    /\ call.op = "RealtimeResume"
    /\ ~fatal
    /\ Len(mSlaves) = 2
    /\ Len(log) = 3
    /\ resumes = 1
    /\ TotalPackets(packets) = 1
    /\ Counter(0) > 0

\* The target compression RealtimeProcess reports for frame statistics st
\* when the core holds the settings drp
TargetFor(drp, st) ==
    EvaluateTransferFunction([NewCompressorProcessor EXCEPT !.mSettings = drp],
                             st.maxInputSampleDb)
    - st.maxInputSampleDb
    - (drp.outCompressionThreshDb - drp.inCompressionThreshDb)

\* C15: in every ProcessBlock and in-range RealtimeProcess that returns, the
\* core ran Process holding the settings passed to that call, holds them
\* afterwards, and the packet of the call is computed from them; the applied
\* settings of an existing realtime context change only in a RealtimeProcess
\* call addressed to its own group.
C15_BlockRunsWithItsOwnSettings ==
    [][~fatal' =>
        /\ call'.op = "ProcessBlock" =>
              /\ Len(log') = 1
              /\ log'[1].ev = "Process"
              /\ log'[1].ranWith = log'[1].passed
              /\ GetSettings(mCompressor') = log'[1].passed
        /\ (call'.op = "RealtimeProcess" /\ call'.group < Len(mSlaves)) =>
              LET g == call'.group
                  sink == mSlaves[g + 1].mpOutputs
              IN  /\ Len(log') = 1
                  /\ log'[1].ev = "Process"
                  /\ log'[1].group = g
                  /\ log'[1].ranWith = log'[1].passed
                  /\ GetSettings(mSlaves'[g + 1].mCompressor) = log'[1].passed
                  /\ sink # NullOutputs =>
                        \E st \in FrameStatsSet :
                            LET pkt == packets'[sink][Len(packets'[sink])]
                            IN  /\ pkt.targetCompressionDb
                                      = TargetFor(log'[1].passed, st)
                                /\ pkt.actualCompressionDb
                                      = st.dbAttenuationOfMaxInputSample
        /\ \A i \in 1..Min(Len(mSlaves), Len(mSlaves')) :
              (GetSettings(mSlaves'[i].mCompressor)
                    # GetSettings(mSlaves[i].mCompressor)) =>
                 (call'.op = "RealtimeProcess" /\ call'.group = i - 1)]_vars

\* group 0 has just run a block with the limiter's settings and emitted a
\* packet computed from them, while group 1 still holds the compressor's
C15_Witness ==
    /\ call.op = "RealtimeProcess"
    /\ call.group = 0
    /\ ~fatal
    /\ Len(mSlaves) = 2
    /\ Len(log) = 1
    /\ log[1].passed = DrpHard
    /\ GetSettings(mSlaves[1].mCompressor) = DrpHard
    /\ GetSettings(mSlaves[2].mCompressor) = DrpSoft
    /\ mSlaves[1].mpOutputs # NullOutputs
    /\ \E st \in FrameStatsSet :
          LET pk == packets[mSlaves[1].mpOutputs]
          IN  /\ Len(pk) = 1
              /\ pk[1].targetCompressionDb = TargetFor(DrpHard, st)

\* A snapshot that holds neither CompressorSettings nor LimiterSettings
Uninterpretable(s) ==
    s.variant \notin {"CompressorSettings", "LimiterSettings"}

\* C16: with a settings snapshot that is neither the compressor nor the
\* limiter variant, ProcessInitialize, ProcessBlock, RealtimeAddProcessor,
\* in-range RealtimeProcess and GetLatency end in the fatal state; out-of-range
\* RealtimeProcess, RealtimePassThrough, RealtimeInitialize, RealtimeFinalize,
\* RealtimeResume and ProcessFinalize return normally.
\* Stated by contraposition: a step that returns is no interpreting call made
\* with such a snapshot, and a step that dies is no call of the second kind.
C16_UninterpretableSettingsFatal ==
    [][\A s \in EffectSettingsSet : Uninterpretable(s) =>
        /\ ~fatal' =>
              /\ call'.op = "ProcessInitialize" =>
                    \A r \in SampleRates : ~ProcessInitialize(s, r)
              /\ call'.op = "ProcessBlock" =>
                    \A st \in FrameStatsSet :
                        ~ProcessBlock(s, st, call'.numSamples)
              /\ call'.op = "RealtimeAddProcessor" =>
                    \A o \in OutputsSet, c \in ChannelCounts,
                       r \in AddSampleRates :
                        ~RealtimeAddProcessor(s, o, c, r)
              /\ call'.op = "GetLatency" =>
                    \A r \in SampleRates : ~GetLatency(s, r)
              /\ (call'.op = "RealtimeProcess"
                  /\ InRange(call'.group, mSlaves)) =>
                    \A st \in FrameStatsSet :
                        ~RealtimeProcess(call'.group, s, st, call'.numSamples)
              /\ (call'.op = "RealtimeProcess"
                  /\ ~InRange(call'.group, mSlaves)) => ret' = 0
              /\ call'.op \in {"RealtimeInitialize", "RealtimeFinalize",
                               "RealtimeResume", "ProcessFinalize"} => ok'
        /\ fatal' =>
              /\ call'.op = "RealtimeProcess" =>
                    \A g \in Groups, st \in FrameStatsSet, n \in BlockLens :
                        RealtimeProcess(g, s, st, n) => InRange(g, mSlaves)
              /\ call'.op = "RealtimePassThrough" =>
                    \A g \in Groups, n \in BlockLens :
                        ~RealtimePassThrough(g, s, n)
              /\ call'.op = "RealtimeInitialize" =>
                    \A r \in SampleRates : ~RealtimeInitialize(s, r)
              /\ call'.op = "RealtimeFinalize" => ~RealtimeFinalize(s)
              /\ call'.op = "RealtimeResume" => ~RealtimeResume
              /\ call'.op = "ProcessFinalize" => ~ProcessFinalize]_vars

\* an in-range RealtimeProcess has died on such a snapshot
C16_Witness ==
    /\ fatal
    /\ call.op = "RealtimeProcess"

\* sample i of the block has an input that reaches the silence floor
Qualifies(i) == Abs(blk.in[i]) * FloorInverse >= SampleDen

C18_PacketsDoNotOverlap ==
    \A k \in Sinks :
        /\ Len(hist.emitted[k]) = Len(packets[k])
        /\ \A i \in 1..(Len(packets[k]) - 1) :
              LET p == packets[k][i]
                  q == packets[k][i + 1]
                  hp == hist.emitted[k][i]
                  hq == hist.emitted[k][i + 1]
              IN  (hp.group = hq.group /\ hp.life = hq.life) =>
                     /\ q.indexOfFirstSample
                           >= p.indexOfFirstSample + hp.numSamples
                     /\ q.indexOfFirstSample - p.indexOfFirstSample
                           - hp.numSamples = hq.bypassed

\* a 256-sample block at 0, 256 samples bypassed, the next packet at 512
C18_Witness ==
    \E k \in Sinks :
        /\ Len(packets[k]) = 2
        /\ hist.emitted[k][1].group = hist.emitted[k][2].group
        /\ hist.emitted[k][1].life = hist.emitted[k][2].life
        /\ hist.emitted[k][1].numSamples = 256
        /\ hist.emitted[k][2].bypassed = 256
        /\ packets[k][1].indexOfFirstSample = 0
        /\ packets[k][2].indexOfFirstSample = 512

\* The most recent InitializeProcessingSettings notification carries rate r
\* exactly if mSampleRate holds r, and is absent or was never published
\* exactly if mSampleRate is empty
Agree ==
    IF mSampleRate = Nullopt
    THEN lastInitPublished \in {<<>>, <<Nullopt>>}
    ELSE lastInitPublished = <<mSampleRate>>

\* C19 (as amended): right after RealtimeInitialize(r) the most recent
\* notification carries r and GetSampleRate holds r, right after
\* RealtimeFinalize both are absent, and every operation other than
\* ProcessInitialize and ProcessFinalize keeps the notification and
\* GetSampleRate in agreement.
C19_NotificationAgreesInRealtime ==
    [][~fatal' =>
        /\ call'.op = "RealtimeInitialize" =>
              /\ Agree'
              /\ mSampleRate' # Nullopt
        /\ call'.op = "RealtimeFinalize" =>
              /\ Agree'
              /\ mSampleRate' = Nullopt
        /\ (Agree /\ call'.op \notin {"ProcessInitialize", "ProcessFinalize"})
              => Agree']_vars

\* a realtime session at 48000 Hz with a context that has run a block: the
\* notification carries 48000
C19_Witness ==
    /\ ~fatal
    /\ call.op = "RealtimeProcess"
    /\ Len(mSlaves) > 0
    /\ mSampleRate = MakeOptional(48000)
    /\ lastInitPublished = <<MakeOptional(48000)>>

\* C19 as stated: after any sequence of ProcessInitialize, ProcessFinalize,
\* RealtimeInitialize and RealtimeFinalize the most recent notification
\* agrees with GetSampleRate.
C19_NotificationAlwaysAgrees ==
    (~fatal /\ call.op \in {"construct", "ProcessInitialize", "ProcessFinalize",
                            "RealtimeInitialize", "RealtimeFinalize"}) => Agree

====
